---------------------------- MODULE Spec2Model ----------------------------
(***************************************************************************)
(* Model of the franka-lang evaluators.                                    *)
(*                                                                         *)
(*   - FrankaInterpreter (strict evaluator): execute / evaluate / the      *)
(*     execute<Operation> methods; its only field is `variables`.          *)
(*   - treeUtils.ts (second, coverage-aware definitions): CoverageTracker, *)
(*     generatePathId, tryEvaluate (diagnostic evaluator), buildLogicTree  *)
(*     (display-tree builder).                                             *)
(*   - ExpressionTree: the useMemo callback that runs one diagnostic pass  *)
(*     and then builds the display tree with the same tracker.             *)
(*                                                                         *)
(* JavaScript values are tagged records:                                   *)
(*   [k |-> "undef"]  [k |-> "null"]  [k |-> "bool", b]  [k |-> "num", n]  *)
(*   [k |-> "str", s]       s a sequence of one-character strings          *)
(*   [k |-> "arr", a, id]   a the elements, id the object identity         *)
(*   [k |-> "map", keys, vals, id]  keys in Object.keys order              *)
(* Object identity matters because `===` compares arrays and objects by    *)
(* reference: a node of the parsed document carries id 0; an array made by *)
(* Array.map gets a fresh id > 0, and so does an empty mapping when it is  *)
(* returned as a value (every node is evaluated at most once per call, so  *)
(* a fresh id per evaluation is the node's own identity).                  *)
(***************************************************************************)
EXTENDS Integers, Sequences, FiniteSets, TLC

VARIABLES
    program,        \* the input: [variables, expression].  It is the FrankaProgram
                    \* handed to execute, and ExpressionTree is rendered with
                    \* expr = program.expression, inputDefaults = program.variables
    variables,      \* FrankaInterpreter.variables
    outcome,        \* what the last execute call returned or threw: [ok, val, err]
    trace,          \* ghost: one record per evaluate call of the last execute, in
                    \* the order the calls ended
    calls,          \* number of execute calls made on this interpreter
    coveredPaths,   \* CoverageTracker.coveredPaths
    passPaths,      \* ghost: coveredPaths as the diagnostic pass left it
    passValue,      \* what the diagnostic pass (tryEvaluate) returned
    tree,           \* what buildLogicTree returned
    phase,          \* the ExpressionTree callback: "idle", "evaluated", "failed",
                    \* "built", "crashed"
    programVariables,   \* the mapping the caller's program object holds as `variables`
    inherited       \* ghost: FrankaInterpreter.variables when the last execute began

vars == <<program, variables, outcome, trace, calls, coveredPaths, passPaths, passValue,
          tree, phase, programVariables, inherited>>

-----------------------------------------------------------------------------
(* JavaScript values *)

Undef == [k |-> "undef"]
Null == [k |-> "null"]
Bool(b) == [k |-> "bool", b |-> b]
Num(n) == [k |-> "num", n |-> n]
Str(s) == [k |-> "str", s |-> s]
Arr(a) == [k |-> "arr", a |-> a, id |-> 0]
NewArr(a, id) == [k |-> "arr", a |-> a, id |-> id]
Map(keys, vals) == [k |-> "map", keys |-> keys, vals |-> vals, id |-> 0]
Op(key, payload) == Map(<<key>>, <<payload>>)

\* Object.keys(x).includes(key) for a mapping; `key in x` for the keys the code asks about
HasKey(x, key) == x.k = "map" /\ \E i \in 1..Len(x.keys) : x.keys[i] = key

\* x[key] / x.key : undefined when absent or when x is not a mapping
Field(x, key) ==
    IF HasKey(x, key)
    THEN x.vals[CHOOSE i \in 1..Len(x.keys) : x.keys[i] = key]
    ELSE Undef

\* typeof x === 'object'
IsObject(x) == x.k \in {"null", "arr", "map"}

\* Boolean(x)
Truthy(x) ==
    CASE x.k = "undef" -> FALSE
      [] x.k = "null" -> FALSE
      [] x.k = "bool" -> x.b
      [] x.k = "num" -> x.n # 0
      [] x.k = "str" -> x.s # <<>>
      [] OTHER -> TRUE

-----------------------------------------------------------------------------
(* Strings: sequences of one-character strings *)

kLet == <<"l", "e", "t">>
kIn == <<"i", "n">>
kConcat == <<"c", "o", "n", "c", "a", "t">>
kValues == <<"v", "a", "l", "u", "e", "s">>
kValue == <<"v", "a", "l", "u", "e">>
kUppercase == <<"u", "p", "p", "e", "r", "c", "a", "s", "e">>
kLowercase == <<"l", "o", "w", "e", "r", "c", "a", "s", "e">>
kLength == <<"l", "e", "n", "g", "t", "h">>
kSubstring == <<"s", "u", "b", "s", "t", "r", "i", "n", "g">>
kStart == <<"s", "t", "a", "r", "t">>
kEnd == <<"e", "n", "d">>
kAnd == <<"a", "n", "d">>
kOr == <<"o", "r">>
kNot == <<"n", "o", "t">>
kEquals == <<"e", "q", "u", "a", "l", "s">>
kLeft == <<"l", "e", "f", "t">>
kRight == <<"r", "i", "g", "h", "t">>
kIf == <<"i", "f">>
kCondition == <<"c", "o", "n", "d", "i", "t", "i", "o", "n">>
kThen == <<"t", "h", "e", "n">>
kElse == <<"e", "l", "s", "e">>
kGet == <<"g", "e", "t">>

UpperOf == [a |-> "A", b |-> "B", c |-> "C", d |-> "D", e |-> "E", f |-> "F",
            g |-> "G", h |-> "H", i |-> "I", j |-> "J", k |-> "K", l |-> "L",
            m |-> "M", n |-> "N", o |-> "O", p |-> "P", q |-> "Q", r |-> "R",
            s |-> "S", t |-> "T", u |-> "U", v |-> "V", w |-> "W", x |-> "X",
            y |-> "Y", z |-> "Z"]

\* String.prototype.toUpperCase / toLowerCase, character by character
toUpperCase(s) ==
    [i \in 1..Len(s) |-> IF s[i] \in DOMAIN UpperOf THEN UpperOf[s[i]] ELSE s[i]]

toLowerCase(s) ==
    [i \in 1..Len(s) |->
        IF \E c \in DOMAIN UpperOf : UpperOf[c] = s[i]
        THEN CHOOSE c \in DOMAIN UpperOf : UpperOf[c] = s[i]
        ELSE s[i]]

Digit == <<"0", "1", "2", "3", "4", "5", "6", "7", "8", "9">>

RECURSIVE NatChars(_)
NatChars(n) ==
    IF n < 10 THEN <<Digit[n + 1]>> ELSE NatChars(n \div 10) \o <<Digit[(n % 10) + 1]>>

\* String(n) for an integer n
NumChars(n) == IF n < 0 THEN <<"-">> \o NatChars(0 - n) ELSE NatChars(n)

\* the characters of s as one TLA+ string (for path identifiers and display text)
RECURSIVE Text(_)
Text(s) == IF s = <<>> THEN "" ELSE Head(s) \o Text(Tail(s))

RECURSIVE StringOf(_)
RECURSIVE joinFrom(_, _, _)

\* Array.prototype.join(sep): null and undefined elements give the empty string
joinFrom(a, i, sep) ==
    IF i > Len(a) THEN <<>>
    ELSE (IF i > 1 THEN sep ELSE <<>>)
         \o (IF a[i].k \in {"null", "undef"} THEN <<>> ELSE StringOf(a[i]))
         \o joinFrom(a, i + 1, sep)

join(a, sep) == joinFrom(a, 1, sep)

\* String(x)
StringOf(x) ==
    CASE x.k = "undef" -> <<"u", "n", "d", "e", "f", "i", "n", "e", "d">>
      [] x.k = "null" -> <<"n", "u", "l", "l">>
      [] x.k = "bool" -> IF x.b THEN <<"t", "r", "u", "e">> ELSE <<"f", "a", "l", "s", "e">>
      [] x.k = "num" -> NumChars(x.n)
      [] x.k = "str" -> x.s
      [] x.k = "arr" -> join(x.a, <<",">>)
      [] OTHER -> <<"[", "o", "b", "j", "e", "c", "t", " ", "O", "b", "j", "e", "c", "t", "]">>

\* ToIntegerOrInfinity(ToNumber(x)) as String.prototype.substring applies it to an
\* index: NaN counts as 0
IsDigits(s) == s # <<>> /\ \A i \in 1..Len(s) : \E d \in 1..10 : Digit[d] = s[i]

RECURSIVE ParseNat(_)
ParseNat(s) ==
    IF s = <<>> THEN 0
    ELSE 10 * ParseNat(SubSeq(s, 1, Len(s) - 1))
         + ((CHOOSE d \in 1..10 : Digit[d] = s[Len(s)]) - 1)

ParseInt(s) ==
    IF IsDigits(s) THEN ParseNat(s)
    ELSE IF s # <<>> /\ Head(s) = "-" /\ IsDigits(Tail(s)) THEN 0 - ParseNat(Tail(s))
    ELSE 0

ToInteger(x) ==
    CASE x.k = "num" -> x.n
      [] x.k = "bool" -> IF x.b THEN 1 ELSE 0
      [] x.k = "str" -> ParseInt(x.s)
      [] x.k = "arr" -> ParseInt(StringOf(x))
      [] OTHER -> 0

Min(a, b) == IF a < b THEN a ELSE b
Max(a, b) == IF a > b THEN a ELSE b

\* a variant of substring that does not swap its indices: nothing when start > end
substringNoSwap(s, start, end) ==
    LET len == Len(s)
        intStart == ToInteger(start)
        intEnd == IF end.k = "undef" THEN len ELSE ToInteger(end)
    IN  SubSeq(s, Min(Max(intStart, 0), len) + 1, Min(Max(intEnd, 0), len))

\* String.prototype.substring(start, end): an undefined end is the length, both
\* indices are clamped into [0, length], and they are swapped when start > end
substring(s, start, end) ==
    LET len == Len(s)
        intStart == ToInteger(start)
        intEnd == IF end.k = "undef" THEN len ELSE ToInteger(end)
        finalStart == Min(Max(intStart, 0), len)
        finalEnd == Min(Max(intEnd, 0), len)
        from == Min(finalStart, finalEnd)
        to == Max(finalStart, finalEnd)
    IN  SubSeq(s, from + 1, to)

\* left === right
StrictEquals(left, right) ==
    /\ left.k = right.k
    /\ CASE left.k = "bool" -> left.b = right.b
         [] left.k = "num" -> left.n = right.n
         [] left.k = "str" -> left.s = right.s
         [] left.k \in {"arr", "map"} -> left.id = right.id
         [] OTHER -> TRUE

-----------------------------------------------------------------------------
(* FrankaInterpreter: the strict evaluator.                                *)
(*                                                                         *)
(* A call works on st = [vars, nxt, trace]: vars is this.variables, nxt     *)
(* the next fresh object identity, trace the ghost log.  It returns        *)
(* [ok, val, err, st]: ok = FALSE is a thrown Error with message err, and  *)
(* st is then the state at the moment the exception leaves.  route is the  *)
(* place of the expression in the program (ghost).                         *)

Ok(v, st) == [ok |-> TRUE, val |-> v, err |-> "", st |-> st]
Throw(msg, st) == [ok |-> FALSE, val |-> Undef, err |-> msg, st |-> st]

\* r, and then Continue(r) unless r is a thrown exception, which propagates
Then(r, Continue(_)) == IF r.ok THEN Continue(r) ELSE r

Index(i) == Text(NumChars(i))

RECURSIVE evaluate(_, _, _)

\* items.map((v) => this.evaluate(v)): val is the sequence of results
RECURSIVE evaluateEach(_, _, _, _, _)
evaluateEach(items, i, st, route, acc) ==
    IF i > Len(items) THEN Ok(acc, st)
    ELSE Then(evaluate(items[i], st, Append(route, Index(i - 1))),
              LAMBDA r : evaluateEach(items, i + 1, r.st, route, Append(acc, r.val)))

\* x.map(...) on something that may not be an array
mapEvaluate(values, st, route) ==
    IF values.k # "arr" THEN Throw("TypeError: values.map is not a function", st)
    ELSE evaluateEach(values.a, 1, st, route, <<>>)

\* this.variables[key] = value
Assign(st, key, value) == [st EXCEPT !.vars = (key :> value) @@ @]

\* a variant of the binding loop that installs the bindings last to first
RECURSIVE letBindingsBackwards(_, _, _, _)
letBindingsBackwards(args, i, st, route) ==
    IF i > Len(args.keys) THEN Ok(Undef, st)
    ELSE IF args.keys[i] = kIn THEN letBindingsBackwards(args, i + 1, st, route)
    ELSE Then(letBindingsBackwards(args, i + 1, st, route),
              LAMBDA rest :
                Then(evaluate(args.vals[i], rest.st, route \o <<"let", Text(args.keys[i])>>),
                     LAMBDA r : Ok(Undef, Assign(r.st, args.keys[i], r.val))))

\* for (const [key, value] of Object.entries(args)) if (key !== 'in') ...
RECURSIVE letBindings(_, _, _, _)
letBindings(args, i, st, route) ==
    IF i > Len(args.keys) THEN Ok(Undef, st)
    ELSE IF args.keys[i] = kIn THEN letBindings(args, i + 1, st, route)
    ELSE Then(evaluate(args.vals[i], st, route \o <<"let", Text(args.keys[i])>>),
              LAMBDA r : letBindings(args, i + 1, Assign(r.st, args.keys[i], r.val), route))

\* a variant of the restore loops that only copies the saved values back, deleting nothing
AssignSaved(st, savedVariables) == [st EXCEPT !.vars = savedVariables @@ @]

\* the restore loops: delete every key, then Object.assign(this.variables, savedVariables)
Restore(st, savedVariables) == [st EXCEPT !.vars = savedVariables]

executeLet(args, st, route) ==
    IF ~Truthy(args) \/ ~IsObject(args)
    THEN Throw("let operation requires bindings and an \"in\" expression", st)
    ELSE IF ~Truthy(Field(args, kIn))
    THEN Throw("let operation requires an \"in\" expression", st)
    ELSE Then(letBindings(args, 1, st, route),
              LAMBDA bound :
                Then(evaluate(Field(args, kIn), bound.st, route \o <<"let", "in">>),
                     LAMBDA result : Ok(result.val, Restore(result.st, st.vars))))

\* a variant of extractValue that never reads the {value: ...} form
extractValueDirect(args, st, route, op) == evaluate(args, st, route \o <<op>>)

extractValue(args, st, route, op) ==
    IF IsObject(args) /\ args.k # "null" /\ args.k # "arr" /\ HasKey(args, kValue)
    THEN evaluate(Field(args, kValue), st, route \o <<op, "value">>)
    ELSE evaluate(args, st, route \o <<op>>)

\* the array-or-{values} payload of concat, and, or
valuesOf(args, st, route, op) ==
    IF args.k = "arr" THEN mapEvaluate(args, st, route \o <<op>>)
    ELSE IF Truthy(args) /\ IsObject(args) /\ HasKey(args, kValues)
    THEN mapEvaluate(Field(args, kValues), st, route \o <<op, "values">>)
    ELSE Throw(op \o " operation requires an array or an object with \"values\" property",
               st)

executeConcat(args, st, route) ==
    Then(valuesOf(args, st, route, "concat"),
         LAMBDA r : Ok(Str(join(r.val, <<>>)), r.st))

executeUppercase(args, st, route) ==
    Then(extractValue(args, st, route, "uppercase"),
         LAMBDA r : Ok(Str(toUpperCase(StringOf(r.val))), r.st))

executeLowercase(args, st, route) ==
    Then(extractValue(args, st, route, "lowercase"),
         LAMBDA r : Ok(Str(toLowerCase(StringOf(r.val))), r.st))

executeLength(args, st, route) ==
    Then(extractValue(args, st, route, "length"),
         LAMBDA r : Ok(Num(Len(StringOf(r.val))), r.st))

executeSubstring(args, st, route) ==
    IF ~Truthy(args) \/ ~IsObject(args) \/ ~HasKey(args, kValue) \/ ~HasKey(args, kStart)
    THEN Throw("substring operation requires \"value\" and \"start\" properties", st)
    ELSE Then(evaluate(Field(args, kValue), st, route \o <<"substring", "value">>),
              LAMBDA value :
                Then(evaluate(Field(args, kStart), value.st,
                              route \o <<"substring", "start">>),
                     LAMBDA start :
                       Then(IF Field(args, kEnd).k # "undef"
                            THEN evaluate(Field(args, kEnd), start.st,
                                          route \o <<"substring", "end">>)
                            ELSE Ok(Undef, start.st),
                            LAMBDA end :
                              Ok(Str(substring(StringOf(value.val), start.val, end.val)),
                                 end.st))))

\* a variant of executeAnd that stops at the first falsy element
RECURSIVE everyShortCircuit(_, _, _, _)
everyShortCircuit(items, i, st, route) ==
    IF i > Len(items) THEN Ok(Bool(TRUE), st)
    ELSE Then(evaluate(items[i], st, Append(route, Index(i - 1))),
              LAMBDA r : IF Truthy(r.val) THEN everyShortCircuit(items, i + 1, r.st, route)
                         ELSE Ok(Bool(FALSE), r.st))

executeAndShortCircuit(args, st, route) ==
    IF args.k = "arr" THEN everyShortCircuit(args.a, 1, st, route \o <<"and">>)
    ELSE IF Truthy(args) /\ IsObject(args) /\ HasKey(args, kValues)
              /\ Field(args, kValues).k = "arr"
    THEN everyShortCircuit(Field(args, kValues).a, 1, st, route \o <<"and", "values">>)
    ELSE Throw("and operation requires an array or an object with \"values\" property", st)

executeAnd(args, st, route) ==
    Then(valuesOf(args, st, route, "and"),
         LAMBDA r : Ok(Bool(\A i \in 1..Len(r.val) : Truthy(r.val[i])), r.st))

executeOr(args, st, route) ==
    Then(valuesOf(args, st, route, "or"),
         LAMBDA r : Ok(Bool(\E i \in 1..Len(r.val) : Truthy(r.val[i])), r.st))

executeNot(args, st, route) ==
    Then(extractValue(args, st, route, "not"),
         LAMBDA r : Ok(Bool(~Truthy(r.val)), r.st))

executeEquals(args, st, route) ==
    IF ~Truthy(args) \/ ~IsObject(args) \/ ~HasKey(args, kLeft) \/ ~HasKey(args, kRight)
    THEN Throw("equals operation requires \"left\" and \"right\" properties", st)
    ELSE Then(evaluate(Field(args, kLeft), st, route \o <<"equals", "left">>),
              LAMBDA left :
                Then(evaluate(Field(args, kRight), left.st, route \o <<"equals", "right">>),
                     LAMBDA right : Ok(Bool(StrictEquals(left.val, right.val)), right.st)))

\* a variant of executeIf that evaluates both branches before it chooses
executeIfEager(args, st, route) ==
    IF ~Truthy(args) \/ ~IsObject(args) \/ ~HasKey(args, kCondition)
    THEN Throw("if operation requires \"condition\" property", st)
    ELSE Then(evaluate(Field(args, kCondition), st, route \o <<"if", "condition">>),
              LAMBDA condition :
                Then(evaluate(Field(args, kThen), condition.st, route \o <<"if", "then">>),
                     LAMBDA then :
                       Then(evaluate(Field(args, kElse), then.st, route \o <<"if", "else">>),
                            LAMBDA else :
                              Ok(IF Truthy(condition.val)
                                 THEN IF Field(args, kThen).k # "undef"
                                      THEN then.val ELSE Null
                                 ELSE IF Field(args, kElse).k # "undef"
                                      THEN else.val ELSE Null,
                                 else.st))))

executeIf(args, st, route) ==
    IF ~Truthy(args) \/ ~IsObject(args) \/ ~HasKey(args, kCondition)
    THEN Throw("if operation requires \"condition\" property", st)
    ELSE Then(evaluate(Field(args, kCondition), st, route \o <<"if", "condition">>),
              LAMBDA condition :
                IF Truthy(condition.val)
                THEN IF Field(args, kThen).k # "undef"
                     THEN evaluate(Field(args, kThen), condition.st,
                                   route \o <<"if", "then">>)
                     ELSE Ok(Null, condition.st)
                ELSE IF Field(args, kElse).k # "undef"
                     THEN evaluate(Field(args, kElse), condition.st,
                                   route \o <<"if", "else">>)
                     ELSE Ok(Null, condition.st))

\* a variant of the switch whose default case returns null
dispatchLenient(operationName, operationArgs, st, route) ==
    CASE operationName = kLet -> executeLet(operationArgs, st, route)
      [] operationName = kConcat -> executeConcat(operationArgs, st, route)
      [] operationName = kUppercase -> executeUppercase(operationArgs, st, route)
      [] operationName = kLowercase -> executeLowercase(operationArgs, st, route)
      [] operationName = kLength -> executeLength(operationArgs, st, route)
      [] operationName = kSubstring -> executeSubstring(operationArgs, st, route)
      [] operationName = kAnd -> executeAnd(operationArgs, st, route)
      [] operationName = kOr -> executeOr(operationArgs, st, route)
      [] operationName = kNot -> executeNot(operationArgs, st, route)
      [] operationName = kEquals -> executeEquals(operationArgs, st, route)
      [] operationName = kIf -> executeIf(operationArgs, st, route)
      [] OTHER -> Ok(Null, st)

\* the switch on keys[0]
dispatch(operationName, operationArgs, st, route) ==
    CASE operationName = kLet -> executeLet(operationArgs, st, route)
      [] operationName = kConcat -> executeConcat(operationArgs, st, route)
      [] operationName = kUppercase -> executeUppercase(operationArgs, st, route)
      [] operationName = kLowercase -> executeLowercase(operationArgs, st, route)
      [] operationName = kLength -> executeLength(operationArgs, st, route)
      [] operationName = kSubstring -> executeSubstring(operationArgs, st, route)
      [] operationName = kAnd -> executeAnd(operationArgs, st, route)
      [] operationName = kOr -> executeOr(operationArgs, st, route)
      [] operationName = kNot -> executeNot(operationArgs, st, route)
      [] operationName = kEquals -> executeEquals(operationArgs, st, route)
      [] operationName = kIf -> executeIf(operationArgs, st, route)
      [] OTHER -> Throw("Unknown operation: " \o Text(operationName), st)

\* a fresh object: its identity is st.nxt
Fresh(object, st) == Ok([object EXCEPT !.id = st.nxt], [st EXCEPT !.nxt = @ + 1])

\* a variant of the variable lookup without the `in` test: an unbound name reads
\* as undefined
lookupOrUndefined(varName, st) ==
    Ok(IF varName \in DOMAIN st.vars THEN st.vars[varName] ELSE Undef, st)

\* const varName = expression.substring(1);
\* if (!(varName in this.variables)) throw ...; return this.variables[varName]
lookupVariable(varName, st) ==
    IF varName \notin DOMAIN st.vars
    THEN Throw("Undefined variable: " \o Text(varName), st)
    ELSE Ok(st.vars[varName], st)

\* the body of evaluate
reduce(expression, st, route) ==
    IF expression.k \in {"null", "undef"} THEN Ok(expression, st)
    ELSE IF expression.k = "str" /\ expression.s # <<>> /\ Head(expression.s) = "$"
    THEN lookupVariable(Tail(expression.s), st)
    ELSE IF ~IsObject(expression) THEN Ok(expression, st)
    ELSE IF expression.k = "arr"
    THEN Then(evaluateEach(expression.a, 1, st, route, <<>>),
              LAMBDA r : Fresh(Arr(r.val), r.st))
    ELSE IF expression.keys = <<>> THEN Fresh(expression, st)
    ELSE dispatch(expression.keys[1], expression.vals[1], st, route)

\* ghost: the record of one evaluate call, appended when it returns or throws
Logged(r, expression, st, route) ==
    [r EXCEPT !.st.trace =
        Append(@, [route |-> route, node |-> expression, before |-> st.vars,
                   after |-> r.st.vars, ok |-> r.ok, val |-> r.val])]

evaluate(expression, st, route) == Logged(reduce(expression, st, route), expression, st, route)

\* a variant of execute that adds the program's variables to the ones the
\* interpreter holds, without emptying them first
executeWithoutReset(this, p) ==
    evaluate(p.expression, [vars |-> p.variables @@ this, nxt |-> 1, trace |-> <<>>], <<>>)

\* execute(program) on an interpreter whose variables field holds `this`:
\* this.variables = program.variables ? { ...program.variables } : {}
\* (a program without `variables` is one whose variables are the empty mapping)
execute(this, p) ==
    evaluate(p.expression, [vars |-> p.variables, nxt |-> 1, trace |-> <<>>], <<>>)

\* what the program object holds as `variables` once execute(p) has ended with r:
\* { ...program.variables } is a copy, so the assignments and deletions made on
\* this.variables do not reach the program's own mapping
heldVariables(p, r) == p.variables

-----------------------------------------------------------------------------
(* treeUtils.ts: CoverageTracker, generatePathId, tryEvaluate.             *)
(*                                                                         *)
(* tr = [cov, nxt] is the tracker's coveredPaths and the next fresh object *)
(* identity.  Path identifiers and display texts are TLA+ strings.         *)

\* CoverageTracker.markCovered / isCovered
markCovered(tr, path) == [tr EXCEPT !.cov = @ \cup {path}]
isCovered(tr, path) == path \in tr.cov

\* UTF-16 order of the characters that occur in keys
CodeUnits == <<" ", "$", ",", "-", ".", "0", "1", "2", "3", "4", "5", "6", "7", "8", "9",
               ":", "<", ">", "A", "B", "C", "D", "E", "F", "G", "H", "I", "J", "K", "L",
               "M", "N", "O", "P", "Q", "R", "S", "T", "U", "V", "W", "X", "Y", "Z", "[",
               "]", "_", "a", "b", "c", "d", "e", "f", "g", "h", "i", "j", "k", "l", "m",
               "n", "o", "p", "q", "r", "s", "t", "u", "v", "w", "x", "y", "z", "{", "}">>

CodeUnit(c) == CHOOSE i \in 1..Len(CodeUnits) : CodeUnits[i] = c

\* s < t as Array.prototype.sort compares strings by default
RECURSIVE StringLess(_, _)
StringLess(s, t) ==
    IF t = <<>> THEN FALSE
    ELSE IF s = <<>> THEN TRUE
    ELSE IF Head(s) = Head(t) THEN StringLess(Tail(s), Tail(t))
    ELSE CodeUnit(Head(s)) < CodeUnit(Head(t))

\* keys.sort()
RECURSIVE sortKeys(_)
sortKeys(keys) ==
    IF keys = <<>> THEN <<>>
    ELSE LET least == CHOOSE i \in 1..Len(keys) :
                        \A j \in 1..Len(keys) : ~StringLess(keys[j], keys[i])
         IN  <<keys[least]>>
             \o sortKeys(SubSeq(keys, 1, least - 1) \o SubSeq(keys, least + 1, Len(keys)))

\* JSON.stringify(x) for a scalar, as a template literal prints it
stringify(x) ==
    CASE x.k = "undef" -> "undefined"
      [] x.k = "null" -> "null"
      [] x.k = "bool" -> IF x.b THEN "true" ELSE "false"
      [] x.k = "num" -> Text(NumChars(x.n))
      [] OTHER -> "\"" \o Text(x.s) \o "\""

generatePathId(expr_, prefix) ==
    IF expr_.k \in {"null", "undef"} \/ ~IsObject(expr_)
    THEN prefix \o ":" \o stringify(expr_)
    ELSE IF expr_.k = "arr"
    THEN prefix \o ":array[" \o Index(Len(expr_.a)) \o "]"
    ELSE prefix \o ":{" \o Text(join([i \in 1..Len(expr_.keys) |->
                                           Str(sortKeys(expr_.keys)[i])], <<",">>)) \o "}"

\* context[name]
Lookup(context, name) == IF name \in DOMAIN context THEN context[name] ELSE Undef

\* `<${name}>`
Placeholder(name) == Str(<<"<">> \o name \o <<">">>)

\* what the try block of tryEvaluate does: it returns v, or it throws
Done(v, tr) == [ok |-> TRUE, val |-> v, tr |-> tr]
Thrown(tr) == [ok |-> FALSE, val |-> Undef, tr |-> tr]

ErrorPlaceholder == Str(<<"<", "e", "r", "r", "o", "r", ">">>)

\* a variant of tryEvaluate without its catch clause
Uncaught(r) == r

\* catch (e) { return '<error>'; }
Caught(r) == IF r.ok THEN r ELSE Done(ErrorPlaceholder, r.tr)

RECURSIVE tryEvaluate(_, _, _, _)

\* items.map((item, idx) => tryEvaluate(item, context, tracker, `${base}[${idx}]`))
RECURSIVE tryEach(_, _, _, _, _, _)
tryEach(items, i, context, tr, base, acc) ==
    IF i > Len(items) THEN Done(acc, tr)
    ELSE Then(tryEvaluate(items[i], context, tr, base \o "[" \o Index(i - 1) \o "]"),
              LAMBDA r : tryEach(items, i + 1, context, r.tr, base, Append(acc, r.val)))

\* the loop over Object.entries(letValue): every binding is evaluated in `context`;
\* val is newContext
RECURSIVE tryBindings(_, _, _, _, _, _)
tryBindings(letValue, i, context, newContext, tr, pathPrefix) ==
    IF i > Len(letValue.keys) THEN Done(newContext, tr)
    ELSE Then(tryEvaluate(letValue.vals[i], context, tr,
                          pathPrefix \o ".let." \o Text(letValue.keys[i])),
              LAMBDA r : tryBindings(letValue, i + 1, context,
                                     (letValue.keys[i] :> r.val) @@ newContext, r.tr,
                                     pathPrefix))

\* typeof p === 'string' ? p : String(p), for every part
Stringified(parts) == [i \in 1..Len(parts) |-> Str(StringOf(parts[i]))]

\* typeof evaluated === 'string' ? Convert(evaluated) : evaluated
IfString(evaluated, Convert(_)) ==
    IF evaluated.k = "str" THEN Str(Convert(evaluated.s)) ELSE evaluated

\* the try block of tryEvaluate
tryBlock(expr_, context, tr, pathPrefix) ==
    IF expr_.k \in {"null", "undef"} \/ ~IsObject(expr_) THEN Done(expr_, tr)
    ELSE IF expr_.k = "arr"
    THEN Then(tryEach(expr_.a, 1, context, tr, pathPrefix, <<>>),
              LAMBDA r : Done(NewArr(r.val, r.tr.nxt), [r.tr EXCEPT !.nxt = @ + 1]))
    ELSE IF expr_.keys = <<>> THEN Done(Null, tr)
    ELSE LET keys == expr_.keys
             key == keys[1]
             value == expr_.vals[1]
         IN
         IF key = kGet /\ value.k = "str"
         THEN Done(IF Lookup(context, value.s).k # "undef"
                   THEN Lookup(context, value.s) ELSE Placeholder(value.s), tr)
         ELSE IF key = kConcat /\ value.k = "arr"
         THEN Then(tryEach(value.a, 1, context, tr, pathPrefix \o ".concat", <<>>),
                   LAMBDA parts : Done(Str(join(Stringified(parts.val), <<>>)), parts.tr))
         ELSE IF key = kUppercase
         THEN Then(tryEvaluate(value, context, tr, pathPrefix \o ".uppercase"),
                   LAMBDA evaluated : Done(IfString(evaluated.val, toUpperCase),
                                           evaluated.tr))
         ELSE IF key = kLowercase
         THEN Then(tryEvaluate(value, context, tr, pathPrefix \o ".lowercase"),
                   LAMBDA evaluated : Done(IfString(evaluated.val, toLowerCase),
                                           evaluated.tr))
         ELSE IF HasKey(expr_, kIf) /\ (HasKey(expr_, kThen) \/ HasKey(expr_, kElse))
         THEN Then(tryEvaluate(Field(expr_, kIf), context, tr, pathPrefix \o ".if"),
                   LAMBDA condition :
                     IF Truthy(condition.val)
                     THEN IF Field(expr_, kThen).k # "undef"
                          THEN tryEvaluate(Field(expr_, kThen), context, condition.tr,
                                           pathPrefix \o ".then")
                          ELSE Done(Null, condition.tr)
                     ELSE IF Field(expr_, kElse).k # "undef"
                          THEN tryEvaluate(Field(expr_, kElse), context, condition.tr,
                                           pathPrefix \o ".else")
                          ELSE Done(Null, condition.tr))
         ELSE IF key = kEquals /\ value.k = "null"
         THEN \* typeof null === 'object', and `'left' in null` throws a TypeError
              Thrown(tr)
         ELSE IF key = kEquals /\ IsObject(value) /\ HasKey(value, kLeft)
                 /\ HasKey(value, kRight)
         THEN Then(tryEvaluate(Field(value, kLeft), context, tr,
                               pathPrefix \o ".equals.left"),
                   LAMBDA left :
                     Then(tryEvaluate(Field(value, kRight), context, left.tr,
                                      pathPrefix \o ".equals.right"),
                          LAMBDA right : Done(Bool(StrictEquals(left.val, right.val)),
                                              right.tr)))
         ELSE IF HasKey(expr_, kLet) /\ HasKey(expr_, kIn)
         THEN IF Field(expr_, kLet).k = "null"
              THEN \* typeof null === 'object', and Object.entries(null) throws a TypeError
                   Thrown(tr)
              ELSE Then(IF Field(expr_, kLet).k = "map"
                        THEN tryBindings(Field(expr_, kLet), 1, context, context, tr,
                                         pathPrefix)
                        ELSE Done(context, tr),
                        LAMBDA bound : tryEvaluate(Field(expr_, kIn), bound.val, bound.tr,
                                                   pathPrefix \o ".in"))
         ELSE Done(Placeholder(key), tr)

\* tryEvaluate(expr, context, tracker, pathPrefix): [ok, val, tr], and ok = TRUE
tryEvaluate(expr_, context, tr, pathPrefix) ==
    Caught(tryBlock(expr_, context, markCovered(tr, generatePathId(expr_, pathPrefix)),
                    pathPrefix))

-----------------------------------------------------------------------------
(* treeUtils.ts: inferType, formatDisplayValue, buildLogicTree.            *)
(*                                                                         *)
(* A display node is [label, type, value, covered, path, children]; path   *)
(* (ghost) is the path identifier the covered flag was looked up with.     *)
(* buildLogicTree returns [ok, val, tr]: val is the node, and ok = FALSE   *)
(* when it throws.                                                         *)

inferType(value) ==
    CASE value.k \in {"null", "undef"} -> "null"
      [] value.k = "str" -> "string"
      [] value.k = "num" -> "number"
      [] value.k = "bool" -> "boolean"
      [] value.k = "arr" -> "array"
      [] OTHER -> "operation"

formatDisplayValue(value) ==
    CASE value.k \in {"null", "undef"} -> "null"
      [] value.k = "str" -> "\"" \o Text(value.s) \o "\""
      [] value.k \in {"bool", "num"} -> Text(StringOf(value))
      [] value.k = "arr" -> "[" \o Index(Len(value.a)) \o " items]"
      [] OTHER -> "{...}"

\* label || fallback
LabelOr(label, fallback) == IF label = "" THEN fallback ELSE label

Node(label, type, value, covered, path, children) ==
    [label |-> label, type |-> type, value |-> value, covered |-> covered,
     path |-> path, children |-> children]

\* node.data.value = value
WithValue(node, value) == [node EXCEPT !.value = value]

RECURSIVE buildLogicTree(_, _, _, _, _)

\* items.map((item, index) => buildLogicTree(item, context, `${labelBase}${index}${labelEnd}`,
\*                                           tracker, `${base}[${index}]`))
RECURSIVE buildEach(_, _, _, _, _, _, _, _)
buildEach(items, i, context, tr, labelBase, labelEnd, base, acc) ==
    IF i > Len(items) THEN Done(acc, tr)
    ELSE Then(buildLogicTree(items[i], context, labelBase \o Index(i - 1) \o labelEnd, tr,
                             base \o "[" \o Index(i - 1) \o "]"),
              LAMBDA r : buildEach(items, i + 1, context, r.tr, labelBase, labelEnd, base,
                                   Append(acc, r.val)))

\* keys.map((key) => buildLogicTree(expr[key], context, key, tracker, `${pathPrefix}.${key}`))
RECURSIVE buildKeys(_, _, _, _, _, _)
buildKeys(expr_, i, context, tr, pathPrefix, acc) ==
    IF i > Len(expr_.keys) THEN Done(acc, tr)
    ELSE Then(buildLogicTree(expr_.vals[i], context, Text(expr_.keys[i]), tr,
                             pathPrefix \o "." \o Text(expr_.keys[i])),
              LAMBDA r : buildKeys(expr_, i + 1, context, r.tr, pathPrefix,
                                   Append(acc, r.val)))

\* the single-key 'let' form: every binding is evaluated and built from `context`
RECURSIVE buildLetOnly(_, _, _, _, _, _)
buildLetOnly(value, i, context, tr, pathPrefix, acc) ==
    IF i > Len(value.keys) THEN Done(acc, tr)
    ELSE Then(tryEvaluate(value.vals[i], context, tr,
                          pathPrefix \o ".let." \o Text(value.keys[i])),
              LAMBDA evaluated :
                Then(buildLogicTree(value.vals[i],
                                    (value.keys[i] :> evaluated.val) @@ context,
                                    Text(value.keys[i]), evaluated.tr,
                                    pathPrefix \o ".let." \o Text(value.keys[i])),
                     LAMBDA r : buildLetOnly(value, i + 1, context, r.tr, pathPrefix,
                                             Append(acc, r.val))))

\* the flat let/in form: the context accumulates from one binding to the next;
\* val is [nodes, context]
RECURSIVE buildBindings(_, _, _, _, _, _)
buildBindings(letValue, i, newContext, tr, pathPrefix, acc) ==
    IF i > Len(letValue.keys) THEN Done([nodes |-> acc, context |-> newContext], tr)
    ELSE Then(tryEvaluate(letValue.vals[i], newContext, tr,
                          pathPrefix \o ".let." \o Text(letValue.keys[i])),
              LAMBDA evaluated :
                Then(buildLogicTree(letValue.vals[i],
                                    (letValue.keys[i] :> evaluated.val) @@ newContext,
                                    Text(letValue.keys[i]), evaluated.tr,
                                    pathPrefix \o ".let." \o Text(letValue.keys[i])),
                     LAMBDA r : buildBindings(
                                  letValue, i + 1,
                                  (letValue.keys[i] :> evaluated.val) @@ newContext, r.tr,
                                  pathPrefix,
                                  Append(acc, WithValue(r.val,
                                                        formatDisplayValue(evaluated.val))))))

\* 'in', 'if', 'then', 'else' as the only key: the payload is evaluated, then built
buildWrapped(key, type, childLabel, value, context, tr, pathPrefix, covered, currentPath) ==
    Then(tryEvaluate(value, context, tr, pathPrefix \o "." \o key),
         LAMBDA evaluated :
           Then(buildLogicTree(value, context, childLabel, evaluated.tr,
                               pathPrefix \o "." \o key),
                LAMBDA child : Done(Node(key, type, formatDisplayValue(evaluated.val),
                                         covered, currentPath, <<child.val>>), child.tr)))

\* keys.find((k) => k !== 'left' && k !== 'right'), Undef when there is none
findOperation(keys) ==
    IF \E i \in 1..Len(keys) : keys[i] \notin {kLeft, kRight}
    THEN Str(keys[CHOOSE i \in 1..Len(keys) :
                    /\ keys[i] \notin {kLeft, kRight}
                    /\ \A j \in 1..(i - 1) : keys[j] \in {kLeft, kRight}])
    ELSE Undef

\* buildLogicTree once currentPath and covered are computed
buildNode(expr_, context, label, tr, pathPrefix, currentPath, covered) ==
    IF expr_.k \in {"null", "undef"}
    THEN Done(Node(LabelOr(label, "null"), "null", "null", covered, currentPath, <<>>), tr)
    ELSE IF expr_.k = "str"
    THEN Done(Node(LabelOr(label, formatDisplayValue(expr_)), "string",
                   formatDisplayValue(expr_), covered, currentPath, <<>>), tr)
    ELSE IF expr_.k = "num"
    THEN Done(Node(LabelOr(label, Text(StringOf(expr_))), "number", Text(StringOf(expr_)),
                   covered, currentPath, <<>>), tr)
    ELSE IF expr_.k = "bool"
    THEN Done(Node(LabelOr(label, Text(StringOf(expr_))), "boolean", Text(StringOf(expr_)),
                   covered, currentPath, <<>>), tr)
    ELSE IF expr_.k = "arr"
    THEN Then(buildEach(expr_.a, 1, context, tr, "[", "]", pathPrefix, <<>>),
              LAMBDA children :
                Done(Node(LabelOr(label, "array"), "array", formatDisplayValue(expr_),
                          covered, currentPath, children.val), children.tr))
    ELSE IF expr_.keys = <<>>
    THEN Done(Node(LabelOr(label, "{}"), "object", "{}", covered, currentPath, <<>>), tr)
    ELSE LET keys == expr_.keys
             key == keys[1]
             value == expr_.vals[1]
             single == Len(keys) = 1
         IN
         IF single /\ key = kGet
         THEN Done(Node("get " \o Text(StringOf(value)),
                        inferType(Lookup(context, StringOf(value))),
                        IF Lookup(context, StringOf(value)).k # "undef"
                        THEN formatDisplayValue(Lookup(context, StringOf(value)))
                        ELSE "<" \o Text(StringOf(value)) \o ">",
                        covered, currentPath, <<>>), tr)
         ELSE IF single /\ key = kLet /\ value.k = "null"
         THEN \* typeof null === 'object', and Object.entries(null) throws a TypeError
              Thrown(tr)
         ELSE IF single /\ key = kLet /\ value.k = "map"
         THEN Then(buildLetOnly(value, 1, context, tr, pathPrefix, <<>>),
                   LAMBDA bindings :
                     Done(Node("let", "let-binding", Index(Len(value.keys)) \o " bindings",
                               covered, currentPath, bindings.val), bindings.tr))
         ELSE IF single /\ key = kIn
         THEN buildWrapped("in", "expression", "result", value, context, tr, pathPrefix,
                           covered, currentPath)
         ELSE IF single /\ key = kIf
         THEN buildWrapped("if", "conditional", "condition", value, context, tr,
                           pathPrefix, covered, currentPath)
         ELSE IF single /\ key = kThen
         THEN buildWrapped("then", "expression", "result", value, context, tr, pathPrefix,
                           covered, currentPath)
         ELSE IF single /\ key = kElse
         THEN buildWrapped("else", "expression", "result", value, context, tr, pathPrefix,
                           covered, currentPath)
         ELSE IF single /\ key \in {kUppercase, kLowercase, kNot, kLength}
         THEN Then(tryEvaluate(expr_, context, tr, pathPrefix),
                   LAMBDA evaluated :
                     Then(buildLogicTree(value, context, "argument", evaluated.tr,
                                         pathPrefix \o "." \o Text(key)),
                          LAMBDA child :
                            Done(Node(Text(key), "operation",
                                      formatDisplayValue(evaluated.val), covered,
                                      currentPath, <<child.val>>), child.tr)))
         ELSE IF single /\ key = kConcat /\ value.k = "arr"
         THEN Then(tryEvaluate(expr_, context, tr, pathPrefix),
                   LAMBDA evaluated :
                     Then(buildEach(value.a, 1, context, evaluated.tr, "item ", "",
                                    pathPrefix \o ".concat", <<>>),
                          LAMBDA children :
                            Done(Node("concat", "operation",
                                      formatDisplayValue(evaluated.val), covered,
                                      currentPath, children.val), children.tr)))
         ELSE IF HasKey(expr_, kLeft) /\ HasKey(expr_, kRight)
                 /\ findOperation(keys).k # "undef"
         THEN Then(tryEvaluate(expr_, context, tr, pathPrefix),
                   LAMBDA evaluated :
                     Then(buildLogicTree(Field(expr_, kLeft), context, "left",
                                         evaluated.tr, pathPrefix \o ".left"),
                          LAMBDA left :
                            Then(buildLogicTree(Field(expr_, kRight), context, "right",
                                                left.tr, pathPrefix \o ".right"),
                                 LAMBDA right :
                                   Done(Node(Text(findOperation(keys).s), "operation",
                                             formatDisplayValue(evaluated.val), covered,
                                             currentPath, <<left.val, right.val>>),
                                        right.tr))))
         ELSE IF HasKey(expr_, kLet) /\ HasKey(expr_, kIn)
         THEN IF Field(expr_, kLet).k = "null"
              THEN \* typeof null === 'object', and Object.entries(null) throws a TypeError
                   Thrown(tr)
              ELSE Then(IF Field(expr_, kLet).k = "map"
                        THEN buildBindings(Field(expr_, kLet), 1, context, tr, pathPrefix,
                                           <<>>)
                        ELSE Done([nodes |-> <<>>, context |-> context], tr),
                        LAMBDA bindings :
                          Then(tryEvaluate(Field(expr_, kIn), bindings.val.context,
                                           bindings.tr, pathPrefix \o ".in"),
                               LAMBDA finalValue :
                                 Then(buildLogicTree(Field(expr_, kIn),
                                                     bindings.val.context, "in",
                                                     finalValue.tr, pathPrefix \o ".in"),
                                      LAMBDA inNode :
                                        Done(Node("let/in", "let-in",
                                                  formatDisplayValue(finalValue.val),
                                                  covered, currentPath,
                                                  Append(bindings.val.nodes,
                                                         WithValue(inNode.val,
                                                                   formatDisplayValue(
                                                                       finalValue.val)))),
                                             inNode.tr))))
         ELSE Then(buildKeys(expr_, 1, context, tr, pathPrefix, <<>>),
                   LAMBDA children :
                     Done(Node(LabelOr(label, "object"), "object",
                               "{" \o Index(Len(keys)) \o " keys}", covered, currentPath,
                               children.val), children.tr))

\* const currentPath = generatePathId(expr, pathPrefix);
\* const covered = tracker ? tracker.isCovered(currentPath) : undefined;
\* (ExpressionTree always passes a tracker)
looked(expr_, context, label, tr, pathPrefix, currentPath) ==
    buildNode(expr_, context, label, tr, pathPrefix, currentPath,
              isCovered(tr, currentPath))

buildLogicTree(expr_, context, label, tr, pathPrefix) ==
    looked(expr_, context, label, tr, pathPrefix, generatePathId(expr_, pathPrefix))

-----------------------------------------------------------------------------
(* The inputs *)

MaxItems == 2

a == <<"a">>
b == <<"b">>
RefA == Str(<<"$", "a">>)
RefB == Str(<<"$", "b">>)

Names == {a, b}
Refs == {RefA, RefB}
Lits == {Null, Bool(TRUE), Bool(FALSE), Num(0), Num(5), Str(<<>>), Str(<<"A">>),
         Str(<<"a">>), Str(<<"5">>)}
Leaves == Lits \cup Refs
Few == {Null, Num(5), Str(<<"a">>), RefA, RefB}

\* program.variables / inputDefaults
NoVariables == <<>>
Envs == {NoVariables, a :> Num(1), (a :> Str(<<"A">>)) @@ (b :> Num(0))}

SeqsOver(S) == UNION {[1..n -> S] : n \in 0..MaxItems}

\* a mapping with the optional entries left out: a value of Undef is an absent key
Sparse(keys, vals) ==
    LET kept == SelectSeq([i \in 1..Len(keys) |-> i], LAMBDA i : vals[i].k # "undef")
    IN  Map([i \in 1..Len(kept) |-> keys[kept[i]]], [i \in 1..Len(kept) |-> vals[kept[i]]])

Unaries(P) ==
    {Op(o, x) : o \in {kUppercase, kLowercase, kLength, kNot}, x \in P}
    \cup {Op(o, Op(kValue, x)) : o \in {kUppercase, kLowercase, kLength, kNot}, x \in P}

Naries(P) ==
    {Op(o, Arr(s)) : o \in {kConcat, kAnd, kOr}, s \in SeqsOver(P)}
    \cup {Op(o, Op(kValues, Arr(s))) : o \in {kConcat, kAnd, kOr}, s \in SeqsOver(P)}

Equalses(P) == {Op(kEquals, Map(<<kLeft, kRight>>, <<x, y>>)) : x \in P, y \in P}

\* the strict evaluator's if: {if: {condition, then?, else?}}
Ifs(C, T) ==
    {Op(kIf, Sparse(<<kCondition, kThen, kElse>>, <<c, t, e>>)) :
        c \in C, t \in T \cup {Undef}, e \in T \cup {Undef}}

\* the strict evaluator's let: {let: {x: v, y: w, in: body}}, one or two bindings
Lets(V, B) ==
    {Op(kLet, Map(<<x, kIn>>, <<v, body>>)) : x \in Names, v \in V, body \in B}
    \cup UNION {{Op(kLet, Map(<<x, y, kIn>>, <<v, w, body>>)) :
                    y \in Names \ {x}, v \in V, w \in V, body \in B} : x \in Names}

Arrays(P) == {Arr(s) : s \in SeqsOver(P)}

\* the diagnostic evaluator's forms: get, flat if/then/else, flat let/in
Gets == {Op(kGet, Str(x)) : x \in Names}

FlatIfs(C, T) ==
    {Sparse(<<kIf, kThen, kElse>>, <<c, t, e>>) :
        c \in C, t \in T \cup {Undef}, e \in T \cup {Undef}}

FlatLets(V, B) ==
    {Map(<<kLet, kIn>>, <<Op(x, v), body>>) : x \in Names, v \in V, body \in B}
    \cup UNION {{Map(<<kLet, kIn>>, <<Map(<<x, y>>, <<v, w>>), body>>) :
                    y \in Names \ {x}, v \in V, w \in V, body \in B} : x \in Names}

kFoo == <<"f", "o", "o">>
Hello == Str(<<"h", "e", "l", "l", "o">>)
Ok_ == Str(<<"o", "k">>)

\* an operation no evaluator knows, and an equals without its payload
Unknown == Op(kFoo, Null)
EqualsNull == Op(kEquals, Null)

\* compound expressions used as operands
Picks == {Unknown, EqualsNull, Arr(<<Num(5)>>), Arr(<<RefA, Null>>),
          Op(kUppercase, Str(<<"a">>)), Op(kNot, RefA), Op(kGet, Str(a)),
          Op(kLet, Map(<<a, kIn>>, <<Num(5), RefA>>)), Map(<<>>, <<>>)}

\* payloads that miss a required field or have the wrong shape
Malformed ==
    {Op(kEquals, Op(kLeft, Num(5))), Op(kEquals, Str(<<"a">>)), Op(kEquals, Arr(<<>>)),
     Op(kIf, Null), Op(kIf, Map(<<kThen, kElse>>, <<Num(5), Num(0)>>)),
     Op(kConcat, Num(5)), Op(kConcat, Null), Op(kConcat, Op(kValues, Num(5))),
     Op(kAnd, Str(<<"a">>)), Op(kOr, Op(kValue, Num(5))),
     Op(kLet, Null), Op(kLet, Str(<<"a">>)), Op(kLet, Arr(<<Num(5)>>)),
     Op(kLet, Map(<<a>>, <<Num(5)>>)), Op(kLet, Map(<<a, b>>, <<Num(5), RefA>>)),
     Op(kSubstring, Null), Op(kSubstring, Op(kValue, Hello)),
     Op(kSubstring, Map(<<kStart, kEnd>>, <<Num(1), Num(3)>>)),
     Map(<<kLet, kIn>>, <<Null, Num(5)>>), Map(<<kLet, kIn>>, <<Arr(<<Num(5)>>), RefA>>)}

Substrings ==
    {Op(kSubstring, Sparse(<<kValue, kStart, kEnd>>, <<v, i, j>>)) :
        v \in {Hello, Num(5), RefA}, i \in {Num(0 - 1), Num(0), Num(1), Num(2), Num(5)},
        j \in {Undef, Num(1), Num(3), Num(7)}}

\* let { x: v } in [ let { y: w } in body, after ]: an inner let (which may shadow x
\* or fail) followed by a sibling that reads the environment again
NestedLets ==
    {Op(kLet, Map(<<x, kIn>>,
                  <<v, Arr(<<Op(kLet, Map(<<y, kIn>>, <<w, body>>)), after>>)>>)) :
        x \in Names, v \in {Num(1)}, y \in Names, w \in {Num(2), RefA, RefB},
        body \in Refs, after \in Refs}
    \cup UNION {{Op(kLet, Map(<<x, y, kIn>>,
                              <<Op(kLet, Map(<<z, kIn>>, <<Arr(<<Num(5)>>), body>>)), w,
                                after>>)) :
                    y \in Names \ {x}, z \in Names, w \in Refs, body \in Refs,
                    after \in {RefA, RefB,
                               Op(kEquals, Map(<<kLeft, kRight>>, <<RefA, RefB>>)),
                               Op(kEquals, Map(<<kLeft, kRight>>, <<RefA, RefA>>))}} :
                 x \in Names}

\* single-key wrappers and several-key mappings the display-tree builder tells apart
TreeForms ==
    {Op(key, x) : key \in {kIf, kThen, kElse, kIn},
                  x \in {Bool(TRUE), Str(<<"a">>), Op(kUppercase, Str(<<"a">>)),
                         Arr(<<Num(5)>>)}}
    \cup {Op(kLet, Map(<<a>>, <<x>>)) : x \in {Num(5), Op(kUppercase, Str(<<"a">>))}}
    \cup {Map(<<key, kLeft, kRight>>, <<Null, x, y>>) :
             key \in {kEquals, kFoo, kUppercase, kIf}, x \in {Num(5), RefA},
             y \in {Num(5), Op(kUppercase, Str(<<"a">>))}}
    \cup {Map(<<kIf, kThen, kLeft, kRight>>, <<Bool(TRUE), x, Num(5), Num(0)>>) :
             x \in {Str(<<"a">>), Op(kUppercase, Str(<<"a">>))}}
    \cup {Map(<<kUppercase, kFoo>>, <<x, Num(5)>>) : x \in {Str(<<"a">>), Arr(<<Num(5)>>)}}
    \cup {Map(<<kConcat, kFoo>>, <<Arr(<<x>>), Num(5)>>) : x \in {Str(<<"a">>), Num(5)}}

\* and / or of two elements of every truthiness, or of an unbound reference
Logicals ==
    {Op(o, Arr(<<x, y>>)) : o \in {kAnd, kOr}, x \in Lits \cup {RefB, Arr(<<>>)},
                           y \in Lits \cup {RefB, Arr(<<>>)}}

\* malformed nodes inside sequences, operation arguments and let bindings
Deep ==
    {Op(kLet, Map(<<a, kIn>>, <<Unknown, RefA>>)),
     Op(kLet, Map(<<a, kIn>>, <<Num(5), Arr(<<Op(kNot, Op(kIf, Null))>>)>>)),
     Arr(<<Op(kUppercase, Op(kValue, Arr(<<EqualsNull>>)))>>),
     Op(kConcat, Arr(<<Str(<<"a">>), Op(kLength, Op(kSubstring, Op(kValue, Hello)))>>)),
     Op(kIf, Map(<<kCondition, kThen>>, <<Bool(TRUE), Op(kAnd, Arr(<<Op(kOr, Num(5))>>))>>)),
     Op(kEquals, Map(<<kLeft, kRight>>, <<Num(5), Op(kLet, Str(<<"a">>))>>)),
     Op(kIf, Map(<<kCondition, kThen, kElse>>, <<Bool(TRUE), Ok_, Unknown>>))}

Conditions == Lits \cup {RefA, Unknown, Op(kGet, Str(a)), Arr(<<>>)}
Branches == {Ok_, Unknown, RefB, Arr(<<Str(<<"A">>)>>), Op(kUppercase, Str(<<"a">>))}

Expressions ==
    Leaves \cup Picks \cup Malformed \cup Substrings \cup NestedLets \cup TreeForms
    \cup Logicals \cup Deep
    \cup Unaries(Leaves \cup Picks)
    \cup Naries(Few \cup {Unknown, EqualsNull})
    \cup Equalses(Leaves \cup Picks)
    \cup Arrays(Few \cup {Unknown, EqualsNull, Op(kGet, Str(b))})
    \cup Ifs(Conditions, Branches)
    \cup Lets(Few, Refs \cup {Num(0), Null, Str(<<>>), Bool(FALSE)})
    \cup Gets
    \cup FlatIfs(Conditions, Branches \cup {Sparse(<<kIf, kThen, kElse>>,
                                                    <<Bool(FALSE), Num(5), Num(0)>>)})
    \cup FlatLets(Few \cup {Op(kGet, Str(a)), Op(kGet, Str(b))},
                  Refs \cup {Op(kGet, Str(a)), Op(kGet, Str(b)),
                             Op(kConcat, Arr(<<Op(kGet, Str(a)), Op(kGet, Str(b))>>))})

Programs == {[variables |-> v, expression |-> e] : v \in Envs, e \in Expressions}

-----------------------------------------------------------------------------
(* The state machine *)

None == [k |-> "none"]

Init ==
    /\ program \in Programs
    /\ variables = NoVariables
    /\ outcome = None
    /\ trace = <<>>
    /\ calls = 0
    /\ coveredPaths = {}
    /\ passPaths = {}
    /\ passValue = None
    /\ tree = None
    /\ phase = "idle"
    /\ programVariables = program.variables
    /\ inherited = NoVariables

\* interpreter.execute(program)
Execute ==
    /\ calls = 0
    /\ LET r == execute(variables, program)
       IN  /\ variables' = r.st.vars
           /\ outcome' = [ok |-> r.ok, val |-> r.val, err |-> r.err]
           /\ trace' = r.st.trace
           /\ programVariables' = heldVariables(program, r)
    /\ calls' = calls + 1
    /\ inherited' = variables
    /\ UNCHANGED <<program, coveredPaths, passPaths, passValue, tree, phase>>

\* ExpressionTree: const tracker = new CoverageTracker();
\*                 tryEvaluate(expr, inputDefaults, tracker, 'root')
DiagnosticPass ==
    /\ phase = "idle"
    /\ LET r == tryEvaluate(program.expression, program.variables,
                            [cov |-> {}, nxt |-> 1], "root")
       IN  /\ coveredPaths' = r.tr.cov
           /\ passPaths' = r.tr.cov
           /\ passValue' = IF r.ok THEN r.val ELSE passValue
           /\ phase' = IF r.ok THEN "evaluated" ELSE "failed"
    /\ UNCHANGED <<program, variables, outcome, trace, calls, tree, programVariables,
                   inherited>>

\* ExpressionTree: buildLogicTree(expr, inputDefaults, 'root', tracker, 'root')
BuildTree ==
    /\ phase = "evaluated"
    /\ LET r == buildLogicTree(program.expression, program.variables, "root",
                               [cov |-> coveredPaths, nxt |-> 1], "root")
       IN  /\ coveredPaths' = r.tr.cov
           /\ tree' = IF r.ok THEN r.val ELSE tree
           /\ phase' = IF r.ok THEN "built" ELSE "crashed"
    /\ UNCHANGED <<program, variables, outcome, trace, calls, passPaths, passValue,
                   programVariables, inherited>>

Next == Execute \/ DiagnosticPass \/ BuildTree

Spec == Init /\ [][Next]_vars

-----------------------------------------------------------------------------
(* One interpreter, several execute calls *)

MaxCalls == 3

\* programs that bind, read and leave behind the names a and b
CallExpressions ==
    {RefA, RefB, Num(5), Arr(<<RefA, RefB>>),
     Op(kLet, Map(<<a, kIn>>, <<Num(5), RefB>>)),
     Op(kLet, Map(<<b, kIn>>, <<Str(<<"A">>), Unknown>>)),
     Op(kLet, Map(<<a, b, kIn>>, <<Num(0), RefA, Arr(<<RefA, RefB>>)>>))}

CallPrograms == {[variables |-> v, expression |-> e] : v \in Envs, e \in CallExpressions}

InitCalls ==
    /\ program = [variables |-> NoVariables, expression |-> Null]
    /\ variables = NoVariables
    /\ outcome = None
    /\ trace = <<>>
    /\ calls = 0
    /\ coveredPaths = {}
    /\ passPaths = {}
    /\ passValue = None
    /\ tree = None
    /\ phase = "idle"
    /\ programVariables = NoVariables
    /\ inherited = NoVariables

\* interpreter.execute(p), on the interpreter as the calls before left it
Call ==
    /\ calls < MaxCalls
    /\ \E p \in CallPrograms :
          /\ program' = p
          /\ LET r == execute(variables, p)
             IN  /\ variables' = r.st.vars
                 /\ outcome' = [ok |-> r.ok, val |-> r.val, err |-> r.err]
                 /\ trace' = r.st.trace
                 /\ programVariables' = heldVariables(p, r)
    /\ inherited' = variables
    /\ calls' = calls + 1
    /\ UNCHANGED <<coveredPaths, passPaths, passValue, tree, phase>>

NextCalls == Call

SpecCalls == InitCalls /\ [][NextCalls]_vars

-----------------------------------------------------------------------------
(* Reading the log of evaluate calls.  One execute evaluates every node at *)
(* most once, so a route names at most one entry of the log.               *)

Entries == {trace[i] : i \in 1..Len(trace)}

IsLet(node) == node.k = "map" /\ node.keys # <<>> /\ node.keys[1] = kLet

LetEntries == {e \in Entries : IsLet(e.node)}

Evaluated(route) == \E e \in Entries : e.route = route

EntryAt(route) == CHOOSE e \in Entries : e.route = route

\* the payload of a let entry, and the positions of its bindings
ArgsOf(e) == e.node.vals[1]
BindingsOf(args) == {i \in 1..Len(args.keys) : args.keys[i] # kIn}
BindingRoute(e, i) == e.route \o <<"let", Text(ArgsOf(e).keys[i])>>

\* the environment of a let entry extended by its bindings before position i, in
\* mapping order, each with the value its expression evaluated to
RECURSIVE Extended(_, _)
Extended(e, i) ==
    IF i <= 1 THEN e.before
    ELSE IF (i - 1) \in BindingsOf(ArgsOf(e))
    THEN (ArgsOf(e).keys[i - 1] :> EntryAt(BindingRoute(e, i - 1)).val) @@ Extended(e, i - 1)
    ELSE Extended(e, i - 1)

\* C1: after every let that evaluates successfully, nested ones included, the
\* environment is exactly the one the let started from: no binding of the let
\* remains and every name bound before has its former value.
C1_SuccessfulLetRestores ==
    \A e \in LetEntries : e.ok => e.after = e.before

\* C1 witness: let {a: 1} in [let {a: 2} in $a, $a] has evaluated to [2, 1]: the
\* inner let shadowed a and the sibling after it read the outer value again.
C1_ShadowedNameResolvesAgain ==
    /\ outcome # None /\ outcome.ok
    /\ outcome.val.k = "arr" /\ outcome.val.a = <<Num(2), Num(1)>>
    /\ \E e \in LetEntries :
          /\ e.ok /\ e.route # <<>>
          /\ a \in DOMAIN e.before /\ e.before[a] = Num(1)
          /\ ArgsOf(e).keys[1] = a

\* C2 as stated: after every let in which a binding value or the `in` expression
\* fails, the environment is exactly the one the let started from.
C2_FailingLetRestores ==
    \A e \in LetEntries : ~e.ok => e.after = e.before

\* C3: in every let, the value expression of each binding, and the `in` expression,
\* is evaluated in the environment the let started from extended by the bindings
\* before it in mapping order; let {a: 5, b: $a} in $b yields 5, and
\* let {b: $a, a: 5} in $b fails with an undefined variable when a is not bound outside.
C3_SequentialBinding ==
    /\ \A e \in LetEntries :
          /\ \A i \in (IF ArgsOf(e).k = "map" THEN BindingsOf(ArgsOf(e)) ELSE {}) :
                Evaluated(BindingRoute(e, i))
                   => EntryAt(BindingRoute(e, i)).before = Extended(e, i)
          /\ Evaluated(e.route \o <<"let", "in">>)
                => EntryAt(e.route \o <<"let", "in">>).before
                      = Extended(e, Len(ArgsOf(e).keys) + 1)
    /\ (calls = 1 /\ program.expression = Op(kLet, Map(<<a, b, kIn>>, <<Num(5), RefA, RefB>>)))
          => (outcome.ok /\ outcome.val = Num(5))
    /\ (calls = 1 /\ program.expression = Op(kLet, Map(<<b, a, kIn>>, <<RefA, Num(5), RefB>>))
          /\ a \notin DOMAIN program.variables)
          => (~outcome.ok /\ outcome.err = "Undefined variable: a")

\* C3 witness: let {a: 5, b: $a} in $b has evaluated to 5 in an environment that
\* bound neither name, the second binding having read the first.
C3_LaterBindingReadsEarlier ==
    /\ calls = 1 /\ outcome.ok /\ outcome.val = Num(5)
    /\ program.variables = NoVariables
    /\ program.expression = Op(kLet, Map(<<a, b, kIn>>, <<Num(5), RefA, RefB>>))
    /\ EntryAt(<<"let", "b">>).before = (a :> Num(5))

-----------------------------------------------------------------------------
(* Reading the result of the diagnostic pass *)

\* a value without the identities of its objects
RECURSIVE Content(_)
Content(v) ==
    CASE v.k = "arr" -> [k |-> "arr", a |-> [i \in 1..Len(v.a) |-> Content(v.a[i])]]
      [] v.k = "map" -> [k |-> "map", keys |-> v.keys,
                         vals |-> [i \in 1..Len(v.vals) |-> Content(v.vals[i])]]
      [] OTHER -> v

Evaluation == phase \in {"evaluated", "built", "crashed"}

\* what a diagnostic pass over x alone returns, x being reached by the route prefix
Alone(x, prefix) ==
    tryEvaluate(x, program.variables, [cov |-> {}, nxt |-> 1], prefix).val

StartsWith(s, prefix) == Len(s) >= Len(prefix) /\ SubSeq(s, 1, Len(prefix)) = prefix

\* no identifier of the set names a node reached through the route prefix
NothingBelow(paths, prefix) == \A id \in paths : ~StartsWith(id, prefix)

\* C4 as stated: whenever the strict evaluator succeeds on a program, the diagnostic
\* evaluator returns the same value for the same expression and environment.
C4_SameValueAsStrict ==
    (calls = 1 /\ outcome.ok /\ Evaluation) => Content(passValue) = Content(outcome.val)

\* C5: the diagnostic pass always returns a value; a node whose reduction fails
\* (equals: null) is replaced by "<error>" at that node only, and the other elements
\* of the same sequence, the other parts of the same concat and the other argument
\* of the same equals are still evaluated, each to the value it has alone, and
\* recorded in the coverage set.
C5_NeverFailsOutward ==
    /\ phase # "failed"
    /\ Evaluation =>
         LET e == program.expression
         IN  /\ e = EqualsNull => passValue = ErrorPlaceholder
             /\ e.k = "arr" =>
                  /\ passValue.k = "arr" /\ Len(passValue.a) = Len(e.a)
                  /\ \A i \in 1..Len(e.a) :
                        /\ generatePathId(e.a[i], "root[" \o Index(i - 1) \o "]")
                              \in passPaths
                        /\ Content(passValue.a[i])
                              = Content(Alone(e.a[i], "root[" \o Index(i - 1) \o "]"))
                        /\ (passValue.a[i] = ErrorPlaceholder) = (e.a[i] = EqualsNull)
             /\ (e.k = "map" /\ e.keys = <<kConcat>> /\ e.vals[1].k = "arr") =>
                  /\ \A i \in 1..Len(e.vals[1].a) :
                        generatePathId(e.vals[1].a[i],
                                       "root.concat[" \o Index(i - 1) \o "]") \in passPaths
                  /\ passValue
                        = Str(join([i \in 1..Len(e.vals[1].a) |->
                                       Str(StringOf(Alone(e.vals[1].a[i], "root")))],
                                   <<>>))
             /\ (e.k = "map" /\ e.keys = <<kEquals>> /\ e.vals[1].k = "map"
                   /\ e.vals[1].keys = <<kLeft, kRight>>) =>
                  /\ generatePathId(e.vals[1].vals[1], "root.equals.left") \in passPaths
                  /\ generatePathId(e.vals[1].vals[2], "root.equals.right") \in passPaths
                  /\ passValue.k = "bool"

\* C5 witness: [{equals: null}, 5] has been evaluated to ["<error>", 5], and the
\* element after the failing one is in the coverage set.
C5_SiblingAfterFailure ==
    /\ Evaluation
    /\ program.expression = Arr(<<EqualsNull, Num(5)>>)
    /\ passValue.k = "arr" /\ passValue.a = <<ErrorPlaceholder, Num(5)>>
    /\ {"root[0]:{equals}", "root[1]:5"} \subseteq passPaths

\* the branch a condition selects, and the other one
Selected(condition) == IF Truthy(Alone(condition, "root")) THEN "then" ELSE "else"
Unselected(condition) == IF Truthy(Alone(condition, "root")) THEN "else" ELSE "then"

BranchKey(name) == IF name = "then" THEN kThen ELSE kElse

\* the coverage set has the identifier of the selected branch of the if whose parts
\* are reached through `route`, and nothing of the other branch
BranchCoverage(holder, condition, route) ==
    /\ generatePathId(Field(holder, BranchKey(Selected(condition))),
                      route \o "." \o Selected(condition)) \in passPaths
    /\ NothingBelow(passPaths, route \o "." \o Unselected(condition))

\* an if in the encoding the diagnostic evaluator reads: {if: c, then: t, else: e}
IsFlatIf(e) ==
    e.k = "map" /\ HasKey(e, kIf) /\ HasKey(e, kThen) /\ HasKey(e, kElse)

\* an if in the encoding the strict evaluator reads: {if: {condition: c, then: t, else: e}}
IsNestedIf(e) ==
    /\ e.k = "map" /\ e.keys = <<kIf>> /\ e.vals[1].k = "map"
    /\ HasKey(e.vals[1], kCondition) /\ HasKey(e.vals[1], kThen) /\ HasKey(e.vals[1], kElse)

\* the flat encoding alone: after a diagnostic pass over {if: c, then: t, else: e} the
\* coverage set has the identifier of the selected branch and nothing of the other
FlatIfBranchCoverage ==
    (Evaluation /\ IsFlatIf(program.expression))
       => BranchCoverage(program.expression, Field(program.expression, kIf), "root")

\* C6 as stated: after a diagnostic pass over an if with both branches present, in
\* the flat encoding or as if({condition, then, else}), the coverage set has the
\* identifier of the branch the condition selects and no identifier of the other
\* branch or of a node below it.
C6_IfBranchCoverage ==
    /\ FlatIfBranchCoverage
    /\ (Evaluation /\ IsNestedIf(program.expression))
          => BranchCoverage(program.expression.vals[1],
                            Field(program.expression.vals[1], kCondition), "root.if")

-----------------------------------------------------------------------------
(* Reading the display tree *)

RECURSIVE NodesOf(_)
NodesOf(node) ==
    {node} \cup UNION {NodesOf(node.children[i]) : i \in 1..Len(node.children)}

\* C7 as stated: in the display tree built after a diagnostic pass, with the
\* tracker of that pass, a node is flagged covered if and only if its path
\* identifier is in the set the pass produced; so every node under the untaken
\* branch of an if is flagged not covered.
C7_FlagIffInPassSet ==
    phase = "built" => \A n \in NodesOf(tree) : n.covered <=> (n.path \in passPaths)

\* the path identifiers of the nodes of a display tree
PathsOf(node) == {n.path : n \in NodesOf(node)}

\* the display tree of the program's expression built with the environment v
Rebuilt(v) ==
    buildLogicTree(program.expression, v, "root", [cov |-> {}, nxt |-> 1], "root").val

\* the identifiers the builder computes for an expression are the same in every
\* environment
PathIdsIgnoreEnvironment ==
    phase = "built" => \A v \in Envs : PathsOf(Rebuilt(v)) = PathsOf(tree)

\* every identifier the diagnostic pass recorded is the identifier of a node of
\* the display tree
VisitedNodesAreBuilt ==
    phase = "built" => passPaths \subseteq PathsOf(tree)

\* C8 as stated: a path identifier depends only on the route from the root and on
\* the structural signature of the node, never on the environment or on a result;
\* and every sub-expression the diagnostic evaluator visits is reached by the
\* display-tree builder by the same route, with the same identifier.
C8_PathIdStability ==
    PathIdsIgnoreEnvironment /\ VisitedNodesAreBuilt

-----------------------------------------------------------------------------
(* The strict evaluator's if and equals, read from the log of evaluate calls *)

IsPrefix(p, route) == Len(p) <= Len(route) /\ SubSeq(route, 1, Len(p)) = p

\* no evaluate call was made for the node at `route` or for a node below it
NeverEvaluated(route) == \A e \in Entries : ~IsPrefix(route, e.route)

\* the entries of the if operations whose condition was evaluated to a value
IfEntries ==
    {e \in Entries :
        /\ e.node.k = "map" /\ e.node.keys # <<>> /\ e.node.keys[1] = kIf
        /\ ArgsOf(e).k = "map" /\ HasKey(ArgsOf(e), kCondition)
        /\ Evaluated(e.route \o <<"if", "condition">>)
        /\ EntryAt(e.route \o <<"if", "condition">>).ok}

ConditionOf(e) == EntryAt(e.route \o <<"if", "condition">>).val
SelectedOf(e) == IF Truthy(ConditionOf(e)) THEN "then" ELSE "else"
UnselectedOf(e) == IF Truthy(ConditionOf(e)) THEN "else" ELSE "then"

FailingThen == Op(kIf, Map(<<kCondition, kThen, kElse>>, <<Bool(FALSE), Unknown, Ok_>>))

\* C9: an if whose condition evaluated makes no evaluate call for the branch the
\* condition does not select, nor for anything below it; it evaluates the selected
\* branch when that is present, and its outcome is that branch's, and it returns
\* null when the selected branch is absent; so
\* if({condition: false, then: <unknown operation>, else: "ok"}) yields "ok".
C9_LazyIf ==
    /\ \A e \in IfEntries :
          /\ NeverEvaluated(e.route \o <<"if", UnselectedOf(e)>>)
          /\ IF HasKey(ArgsOf(e), BranchKey(SelectedOf(e)))
             THEN /\ Evaluated(e.route \o <<"if", SelectedOf(e)>>)
                  /\ e.ok = EntryAt(e.route \o <<"if", SelectedOf(e)>>).ok
                  /\ e.val = EntryAt(e.route \o <<"if", SelectedOf(e)>>).val
             ELSE e.ok /\ e.val = Null
    /\ (calls = 1 /\ program.expression = FailingThen)
          => (outcome.ok /\ outcome.val = Ok_)

\* C9 witness: if({condition: false, then: <unknown operation>, else: "ok"}) has
\* returned "ok", and the failing `then` branch was never evaluated.
C9_FailingBranchSkipped ==
    /\ calls = 1 /\ program.expression = FailingThen
    /\ outcome.ok /\ outcome.val = Ok_
    /\ Evaluated(<<"if", "else">>) /\ ~Evaluated(<<"if", "then">>)

\* the entries of the equals operations whose two sides evaluated to values
EqualsEntries ==
    {e \in Entries :
        /\ e.node.k = "map" /\ e.node.keys # <<>> /\ e.node.keys[1] = kEquals
        /\ Evaluated(e.route \o <<"equals", "left">>)
        /\ Evaluated(e.route \o <<"equals", "right">>)
        /\ EntryAt(e.route \o <<"equals", "right">>).ok}

\* C10 as stated: equals returns true if and only if the values of its two sides
\* have the same type and the same content, sequences included.
C10_EqualsByTypeAndContent ==
    \A e \in EqualsEntries :
        /\ e.ok
        /\ e.val = Bool(Content(EntryAt(e.route \o <<"equals", "left">>).val)
                          = Content(EntryAt(e.route \o <<"equals", "right">>).val))

-----------------------------------------------------------------------------
(* The two payload shapes of the strict evaluator's operations *)

\* what execute returns or throws
OutcomeOf(r) == [ok |-> r.ok, val |-> Content(r.val), err |-> r.err]

\* the outcome of execute on a new interpreter for the program's variables and the
\* expression e
OutcomeFor(e) == OutcomeOf(execute(NoVariables, [program EXCEPT !.expression = e]))

IsOp(e, names) == e.k = "map" /\ Len(e.keys) = 1 /\ e.keys[1] \in names

\* the payload is the {value: ...} form of a single-value operation
IsNamedValue(x) == IsObject(x) /\ x.k = "map" /\ HasKey(x, kValue)

\* uppercase(x) and its like give the outcome of the form with payload {value: x}
SingleValueShapesAgree(e) ==
    OutcomeOf(outcome) = OutcomeFor(Op(e.keys[1], Op(kValue, e.vals[1])))

\* concat([..]) and its like give the outcome of the form with payload {values: [..]}
SequenceShapesAgree(e) ==
    OutcomeOf(outcome) = OutcomeFor(Op(e.keys[1], Op(kValues, e.vals[1])))

\* C11 as stated: for every x, uppercase(x), lowercase(x), length(x) and not(x) give
\* the same outcome as the form with payload {value: x}, and concat, and, or of a
\* sequence give the same outcome as the form with payload {values: sequence}.
C11_ShapesAgreeForEveryPayload ==
    (calls = 1) =>
        /\ IsOp(program.expression, {kUppercase, kLowercase, kLength, kNot})
              => SingleValueShapesAgree(program.expression)
        /\ (IsOp(program.expression, {kConcat, kAnd, kOr})
              /\ program.expression.vals[1].k = "arr")
              => SequenceShapesAgree(program.expression)

\* C11, amended: the same, for every x that is not itself a mapping with the key
\* `value` (such a payload is read as the named form of its `value`).
C11_ShapesAgree ==
    (calls = 1) =>
        /\ (IsOp(program.expression, {kUppercase, kLowercase, kLength, kNot})
              /\ ~IsNamedValue(program.expression.vals[1]))
              => SingleValueShapesAgree(program.expression)
        /\ (IsOp(program.expression, {kConcat, kAnd, kOr})
              /\ program.expression.vals[1].k = "arr")
              => SequenceShapesAgree(program.expression)

\* C11 witness: uppercase("a") has returned "A", which is what uppercase({value: "a"})
\* returns.
C11_BothShapesReturnTheSame ==
    /\ calls = 1 /\ program.expression = Op(kUppercase, Str(<<"a">>))
    /\ outcome.ok /\ outcome.val = Str(<<"A">>)
    /\ OutcomeFor(Op(kUppercase, Op(kValue, Str(<<"a">>)))).val = Str(<<"A">>)

-----------------------------------------------------------------------------
(* and / or, read from the log of evaluate calls *)

\* the entries of the and / or operations whose payload is a sequence, in either shape
AndOrEntries ==
    {e \in Entries :
        /\ e.node.k = "map" /\ e.node.keys # <<>> /\ e.node.keys[1] \in {kAnd, kOr}
        /\ \/ ArgsOf(e).k = "arr"
           \/ ArgsOf(e).k = "map" /\ Field(ArgsOf(e), kValues).k = "arr"}

ItemsOf(e) == IF ArgsOf(e).k = "arr" THEN ArgsOf(e).a ELSE Field(ArgsOf(e), kValues).a

ItemRoute(e, i) ==
    e.route \o <<Text(e.node.keys[1])>>
            \o (IF ArgsOf(e).k = "arr" THEN <<>> ELSE <<"values">>) \o <<Index(i - 1)>>

\* when the evaluate call for the node at `route` ended
EndOf(route) == CHOOSE i \in 1..Len(trace) : trace[i].route = route

\* exactly false, null, 0 and the empty string are false
IsTrue(v) == v \notin {Bool(FALSE), Null, Num(0), Str(<<>>)}

\* C12: and / or evaluate the elements of their sequence in order, each one
\* whatever the values of the elements before it (only a failure ends the
\* evaluation); they succeed when every element did, and the result is the AND / OR
\* of the elements' truthiness, false, null, 0 and "" being the false values; so
\* and([false, $b]) and or([true, $b]) fail when b is not bound.
C12_AndOrEvaluateEveryElement ==
    /\ \A e \in AndOrEntries :
          LET n == Len(ItemsOf(e))
              done(i) == Evaluated(ItemRoute(e, i)) /\ EntryAt(ItemRoute(e, i)).ok
          IN  /\ \A i \in 1..n :
                    Evaluated(ItemRoute(e, i)) <=> \A j \in 1..(i - 1) : done(j)
              /\ \A i \in 1..(n - 1) :
                    Evaluated(ItemRoute(e, i + 1))
                       => EndOf(ItemRoute(e, i)) < EndOf(ItemRoute(e, i + 1))
              /\ e.ok <=> \A i \in 1..n : done(i)
              /\ e.ok =>
                    e.val = Bool(IF e.node.keys[1] = kAnd
                                 THEN \A i \in 1..n : IsTrue(EntryAt(ItemRoute(e, i)).val)
                                 ELSE \E i \in 1..n : IsTrue(EntryAt(ItemRoute(e, i)).val))
    /\ (calls = 1 /\ b \notin DOMAIN program.variables
          /\ program.expression \in {Op(kAnd, Arr(<<Bool(FALSE), RefB>>)),
                                     Op(kOr, Arr(<<Bool(TRUE), RefB>>))})
          => (~outcome.ok /\ outcome.err = "Undefined variable: b")

\* C12 witness: and([false, $b]) has failed on the unbound b after its first
\* element evaluated to false.
C12_NoShortCircuit ==
    /\ calls = 1 /\ program.expression = Op(kAnd, Arr(<<Bool(FALSE), RefB>>))
    /\ ~outcome.ok /\ outcome.err = "Undefined variable: b"
    /\ EntryAt(<<"and", "0">>).val = Bool(FALSE)
    /\ Evaluated(<<"and", "1">>)

-----------------------------------------------------------------------------
(* References to variables that are not bound *)

IsReference(e) == e.k = "str" /\ e.s # <<>> /\ Head(e.s) = "$"

-----------------------------------------------------------------------------
(* Malformed nodes under the strict evaluator *)

KnownOperations ==
    {kLet, kConcat, kUppercase, kLowercase, kLength, kSubstring, kAnd, kOr, kNot, kEquals,
     kIf}

\* a mapping whose first key is no known operation, or an operation whose payload
\* lacks a required field or has the wrong shape
IsMalformed(node) ==
    /\ node.k = "map" /\ node.keys # <<>>
    /\ LET key == node.keys[1]
           payload == node.vals[1]
       IN  \/ key \notin KnownOperations
           \/ key = kSubstring /\ (~HasKey(payload, kValue) \/ ~HasKey(payload, kStart))
           \/ key = kEquals /\ (~HasKey(payload, kLeft) \/ ~HasKey(payload, kRight))
           \/ key = kIf /\ ~HasKey(payload, kCondition)
           \/ key \in {kConcat, kAnd, kOr} /\ payload.k # "arr" /\ ~HasKey(payload, kValues)
           \/ key = kLet /\ payload.k # "map"

\* C14: whenever an evaluate call is made for a malformed node, wherever the node
\* sits, that call fails and the top-level execute fails and returns no value.
C14_MalformedNodeFailsExecute ==
    \A e \in Entries :
        IsMalformed(e.node) => (~e.ok /\ ~outcome.ok /\ outcome.val = Undef)

\* C14 witness: let {a: {foo: null}} in $a has failed with the unknown operation
\* met in its binding.
C14_FailureInsideBinding ==
    /\ calls = 1 /\ program.expression = Op(kLet, Map(<<a, kIn>>, <<Unknown, RefA>>))
    /\ ~outcome.ok /\ outcome.err = "Unknown operation: foo"
    /\ Evaluated(<<"let", "a">>) /\ ~Evaluated(<<"let", "in">>)

-----------------------------------------------------------------------------
(* The `in` expression of a let *)

MissingIn == "let operation requires an \"in\" expression"

\* the program is a let whose payload is a mapping
IsLetProgram == IsOp(program.expression, {kLet}) /\ program.expression.vals[1].k = "map"

IsLiteral(e) == e.k \in {"null", "bool", "num"} \/ (e.k = "str" /\ ~IsReference(e))

\* C15 as stated: a let fails with the missing-in error exactly when its payload
\* has no `in` key; and a let whose `in` is a literal, the literals 0, false, ""
\* and null included, returns that literal once its bindings evaluated.
C15_InKeyDecides ==
    (calls = 1 /\ IsLetProgram) =>
        LET args == program.expression.vals[1]
        IN  /\ (~outcome.ok /\ outcome.err = MissingIn) <=> ~HasKey(args, kIn)
            /\ (HasKey(args, kIn) /\ IsLiteral(Field(args, kIn))
                  /\ \A i \in BindingsOf(args) : IsLiteral(args.vals[i]))
                  => (outcome.ok /\ outcome.val = Field(args, kIn))

-----------------------------------------------------------------------------
(* Calls on one interpreter *)

-----------------------------------------------------------------------------
(* The flat let/in of the diagnostic evaluator and of the display tree *)

\* {let: {..bindings..}, in: body}
IsFlatLet(e) ==
    e.k = "map" /\ HasKey(e, kLet) /\ HasKey(e, kIn) /\ Field(e, kLet).k = "map"

\* the context tryEvaluate's rule should give the binding at position i: `context`
\* extended by the bindings before it, each with the value its expression has in
\* the context built so far
RECURSIVE Sequential(_, _, _)
Sequential(letValue, context, i) ==
    IF i <= 1 THEN context
    ELSE (letValue.keys[i - 1]
             :> tryEvaluate(letValue.vals[i - 1], Sequential(letValue, context, i - 1),
                            [cov |-> {}, nxt |-> 1], "root").val)
         @@ Sequential(letValue, context, i - 1)

\* C17 as stated: for a flat let, tryEvaluate returns the value the `in` expression
\* has in the context extended by the bindings in order, each binding evaluated in
\* the context extended by the bindings before it; and that value is the one the
\* display tree shows for the let.
C17_DiagnosticLetIsSequential ==
    (Evaluation /\ IsFlatLet(program.expression)) =>
        LET letValue == Field(program.expression, kLet)
        IN  /\ Content(passValue)
                 = Content(tryEvaluate(Field(program.expression, kIn),
                                       Sequential(letValue, program.variables,
                                                  Len(letValue.keys) + 1),
                                       [cov |-> {}, nxt |-> 1], "root").val)
            /\ phase = "built" => tree.value = formatDisplayValue(passValue)

-----------------------------------------------------------------------------
(* concat and substring under the strict evaluator *)

\* the concatenation of the strings of a sequence of values, each coerced the way
\* uppercase, lowercase and length coerce their argument: String(value)
RECURSIVE Coerced(_)
Coerced(values) ==
    IF values = <<>> THEN <<>> ELSE StringOf(Head(values)) \o Coerced(Tail(values))

\* C18 as stated: concat of a sequence returns the concatenation of String(v) for
\* the values v of its elements, in order; so the length of concat([v]) is the
\* length of String(v), for null, booleans and numbers too.
C18_ConcatCoercesLikeString ==
    (calls = 1 /\ IsOp(program.expression, {kConcat})
       /\ program.expression.vals[1].k = "arr" /\ outcome.ok) =>
        LET n == Len(program.expression.vals[1].a)
            values == [i \in 1..n |-> EntryAt(<<"concat", Index(i - 1)>>).val]
        IN  /\ outcome.val = Str(Coerced(values))
            /\ n = 1 => Len(outcome.val.s) = Len(StringOf(values[1]))

\* the program is substring({value: s, start: i, end: j}) or substring({value: s,
\* start: i}) for a literal string s and integers i, j
IsSubstringProgram ==
    /\ IsOp(program.expression, {kSubstring})
    /\ LET args == program.expression.vals[1]
       IN  /\ args.k = "map"
           /\ HasKey(args, kValue) /\ Field(args, kValue).k = "str"
           /\ ~IsReference(Field(args, kValue))
           /\ HasKey(args, kStart) /\ Field(args, kStart).k = "num"
           /\ Field(args, kEnd).k \in {"undef", "num"}

SubstringValue == Field(program.expression.vals[1], kValue).s
Clamped(n) == IF n < 0 THEN 0 ELSE IF n > Len(SubstringValue) THEN Len(SubstringValue) ELSE n
SubstringStart == Clamped(Field(program.expression.vals[1], kStart).n)
SubstringEnd ==
    IF Field(program.expression.vals[1], kEnd).k = "undef" THEN Len(SubstringValue)
    ELSE Clamped(Field(program.expression.vals[1], kEnd).n)

\* the characters of s with zero-based index from `from` up to but not including `to`
Characters(s, from, to) == [k \in 1..(IF to > from THEN to - from ELSE 0) |-> s[from + k]]

\* C19 as stated: substring returns the characters of s from index i up to but not
\* including j, both clamped into [0, length(s)], and from i to the end of s when
\* there is no `end`.
C19_SubstringFromStartToEnd ==
    (calls = 1 /\ IsSubstringProgram) =>
        /\ outcome.ok
        /\ outcome.val = Str(Characters(SubstringValue, SubstringStart, SubstringEnd))

\* C19, amended: the same, from the smaller of the two clamped indices up to but
\* not including the larger (the indices are swapped when start is beyond end);
\* ("hello", 1, 3) gives "el" and ("hello", 2) gives "llo".
C19_Substring ==
    /\ (calls = 1 /\ IsSubstringProgram) =>
          /\ outcome.ok
          /\ outcome.val = Str(Characters(SubstringValue,
                                          Min(SubstringStart, SubstringEnd),
                                          Max(SubstringStart, SubstringEnd)))
    /\ (calls = 1 /\ program.expression
                       = Op(kSubstring, Map(<<kValue, kStart, kEnd>>, <<Hello, Num(1), Num(3)>>)))
          => outcome.val = Str(<<"e", "l">>)
    /\ (calls = 1 /\ program.expression
                       = Op(kSubstring, Map(<<kValue, kStart>>, <<Hello, Num(2)>>)))
          => outcome.val = Str(<<"l", "l", "o">>)

\* C19 witness: substring({value: "hello", start: 2, end: 1}) has returned "e", the
\* characters from index 1 up to index 2.
C19_SwappedIndices ==
    /\ calls = 1
    /\ program.expression
          = Op(kSubstring, Map(<<kValue, kStart, kEnd>>, <<Hello, Num(2), Num(1)>>))
    /\ outcome.ok /\ outcome.val = Str(<<"e">>)

\* C20 as stated: building the display tree does not change the coverage set; the
\* identifiers the tracker holds after buildLogicTree are those the diagnostic
\* pass inserted.
C20_BuildingKeepsCoverageSet ==
    phase \in {"built", "crashed"} => coveredPaths = passPaths

\* C21 as stated: in the display tree built after one diagnostic pass over the same
\* expression, whenever a node is flagged covered its parent node is flagged
\* covered too: no covered node sits under a node that is not covered.
C21_CoveredNodesHaveCoveredParents ==
    phase = "built" =>
        \A n \in NodesOf(tree) : \A i \in 1..Len(n.children) :
            n.children[i].covered => n.covered

=============================================================================
